---- MODULE Spec2Model ----
(***************************************************************************)
(* Model of mr-optics: the lens collection state (Config.tsx) and the      *)
(* optics math (lenses.ts), and the layout and the ray trace of the        *)
(* renderer (Renderer.tsx).  JavaScript numbers are modelled as exact      *)
(* rationals in lowest terms, plus NaN.                                     *)
(***************************************************************************)
EXTENDS Integers, Sequences, FiniteSets, TLC

VARIABLES lenses, distances, nextId, dimensions, pc, last

vars == <<lenses, distances, nextId, dimensions, pc, last>>

(* ------------------------------------------------------------------ *)
(* Bounds of the model                                                 *)
(* ------------------------------------------------------------------ *)
MaxId == 3
MaxDistances == 3

(* ------------------------------------------------------------------ *)
(* Numbers                                                             *)
(* ------------------------------------------------------------------ *)
Abs(x) == IF x < 0 THEN -x ELSE x

RECURSIVE Gcd(_, _)
Gcd(a, b) == IF b = 0 THEN a ELSE Gcd(b, a % b)

Num(a, b) ==
  LET s == IF b < 0 THEN -1 ELSE 1
      g == Gcd(Abs(a), Abs(b))
  IN  [kind |-> "num", n |-> (s * a) \div g, d |-> (s * b) \div g]

NaN == [kind |-> "nan", n |-> 0, d |-> 1]
\* a field or an array entry that is not there; arithmetic on it gives NaN and
\* every comparison with it is false, as for NaN
undefined == [kind |-> "undefined", n |-> 0, d |-> 1]

IsNum(x) == x.kind = "num"
\* the global isNaN converts first: undefined converts to NaN
isNaN(x) == x.kind # "num"

Int2Num(i) == Num(i, 1)
Tenths(t) == Num(t, 10)

\* x === y of JavaScript on numbers: NaN equals nothing
StrictEq(x, y) == IsNum(x) /\ IsNum(y) /\ x.n * y.d = y.n * x.d
\* x > y, x >= y, x < y: false as soon as one side is NaN
Gt(x, y) == IsNum(x) /\ IsNum(y) /\ x.n * y.d > y.n * x.d
Ge(x, y) == IsNum(x) /\ IsNum(y) /\ x.n * y.d >= y.n * x.d
Lt(x, y) == IsNum(x) /\ IsNum(y) /\ x.n * y.d < y.n * x.d
Le(x, y) == IsNum(x) /\ IsNum(y) /\ x.n * y.d <= y.n * x.d

Add(x, y) == IF IsNum(x) /\ IsNum(y) THEN Num(x.n * y.d + y.n * x.d, x.d * y.d) ELSE NaN
Neg(x) == IF IsNum(x) THEN Num(-x.n, x.d) ELSE NaN
Sub(x, y) == IF IsNum(x) /\ IsNum(y) THEN Num(x.n * y.d - y.n * x.d, x.d * y.d) ELSE NaN
Mul(x, y) == IF IsNum(x) /\ IsNum(y) THEN Num(x.n * y.n, x.d * y.d) ELSE NaN
\* the callers divide by a non-zero number only (calcRadius tests power === 0 first)
Div(x, y) == IF IsNum(x) /\ IsNum(y) /\ y.n # 0 THEN Num(x.n * y.d, x.d * y.n) ELSE NaN
\* Math.max(x, y)
MathMax(x, y) == IF IsNum(x) /\ IsNum(y) THEN (IF Ge(x, y) THEN x ELSE y) ELSE NaN
\* Math.floor(x), Math.ceil(x)
MathFloor(x) == IF IsNum(x) THEN Num((x.n - (x.n % x.d)) \div x.d, 1) ELSE NaN
MathCeil(x) == Neg(MathFloor(Neg(x)))
\* x as a condition: undefined, NaN and 0 are falsy
Truthy(x) == IsNum(x) /\ x.n # 0

(* ------------------------------------------------------------------ *)
(* lenses.ts                                                           *)
(* ------------------------------------------------------------------ *)
\* a biconcave lens given the opposite sign
calcRadius_ConcaveNegative(power, index, type) ==
  IF StrictEq(power, Int2Num(0)) THEN Int2Num(0)
  ELSE IF type = "biconvex"
       THEN Div(Mul(Int2Num(2), Sub(index, Int2Num(1))), power)
       ELSE Neg(Div(Mul(Int2Num(2), Sub(index, Int2Num(1))), power))

\* The variant of calcRadius that Config.tsx is written against: it stores the
\* result in the required field `r: number` and shows it with Math.round.
calcRadius(power, index, type) ==
  IF StrictEq(power, Int2Num(0)) THEN Int2Num(0)
  ELSE IF type = "biconvex"
       THEN Div(Mul(Int2Num(2), Sub(index, Int2Num(1))), power)
       ELSE Div(Mul(Int2Num(2), Sub(index, Int2Num(1))), power)

\* The variant with the optional fields `power?` and `r?`: null at power 0.
\* Its result is stored as `radius ?? undefined` by the Config.tsx of that time.
null == [kind |-> "null", n |-> 0, d |-> 1]

calcRadiusOrNull(power, index, type) ==
  IF StrictEq(power, Int2Num(0)) THEN null
  ELSE IF type = "biconvex"
       THEN Div(Mul(Int2Num(2), Sub(index, Int2Num(1))), power)
       ELSE Div(Mul(Int2Num(2), Sub(index, Int2Num(1))), power)

(* ------------------------------------------------------------------ *)
(* Config.tsx: constants of the lens collection                        *)
(* ------------------------------------------------------------------ *)
MaxLenses == 3
DefaultPower == Int2Num(6)
DefaultIndex == Tenths(15)
DefaultDistance == Int2Num(1)
MinPower == Tenths(-78)
MinIndex == Tenths(15)
MinDistance == Tenths(2)
\* Renderer.tsx: the size of the canvas before the first measurement
DefaultDimensions == [width |-> Int2Num(800), height |-> Int2Num(400)]

(* ------------------------------------------------------------------ *)
(* Arguments the operations are called with                            *)
(* ------------------------------------------------------------------ *)
Ids == 0 .. MaxId
PowerArgs == {Int2Num(0), Tenths(-78), Tenths(-77), NaN}
IndexArgs == {Tenths(14), Tenths(15), Tenths(16), NaN}
DistanceArgs == {Tenths(1), Tenths(2), NaN}
DistanceIndexArgs == 0 .. (MaxDistances - 1)

(* ------------------------------------------------------------------ *)
(* Array helpers                                                       *)
(* ------------------------------------------------------------------ *)
\* Array.prototype.findIndex on the ids: 0-based position, -1 when absent
findIndex(ls, id) ==
  IF \E i \in 1 .. Len(ls) : ls[i].id = id
  THEN (CHOOSE i \in 1 .. Len(ls) :
          ls[i].id = id /\ \A j \in 1 .. (i - 1) : ls[j].id # id) - 1
  ELSE -1

\* Array.prototype.filter((l) => l.id !== id)
RECURSIVE filterId(_, _)
filterId(ls, id) ==
  IF ls = <<>> THEN <<>>
  ELSE IF Head(ls).id # id THEN <<Head(ls)>> \o filterId(Tail(ls), id)
       ELSE filterId(Tail(ls), id)

\* Array.prototype.filter((_, i) => i !== k), k 0-based
removeAt(ds, k) ==
  IF k >= 0 /\ k < Len(ds)
  THEN SubSeq(ds, 1, k) \o SubSeq(ds, k + 2, Len(ds))
  ELSE ds

\* Array.prototype.slice(0, -1)
sliceLast(ds) == IF Len(ds) = 0 THEN ds ELSE SubSeq(ds, 1, Len(ds) - 1)

(* ------------------------------------------------------------------ *)
(* State                                                               *)
(* ------------------------------------------------------------------ *)
\* The signals `lenses` and `distances` of main.tsx and the counter `nextId`
\* of Config.tsx, as one value: each operation of Config.tsx maps the state
\* it is called in to the state it leaves.
State(ls, ds, n) == [lenses |-> ls, distances |-> ds, nextId |-> n]

cur == State(lenses, distances, nextId)

\* The call that produced the current state: its name, whether the lens or the
\* entry it names was there (hit), whether it was there and the argument passed
\* the guard (ok), and for addLens and deleteLens the 0-based position of the
\* lens added or removed (k, -1 otherwise).
Call(op, k, hit, accepted) ==
  [op |-> op, k |-> k, hit |-> hit, ok |-> hit /\ accepted]

\* where the handler that runs is: no handler runs
Idle == [op |-> "idle"]

Init ==
  /\ lenses = <<>>
  /\ distances = <<>>
  /\ nextId = 1
  /\ dimensions = DefaultDimensions
  /\ pc = Idle
  /\ last = Call("none", -1, FALSE, FALSE)

(* ------------------------------------------------------------------ *)
(* Config.tsx: the operations                                          *)
(* ------------------------------------------------------------------ *)
NewLens(id) ==
  [id |-> id, type |-> "biconvex", index |-> DefaultIndex, power |-> DefaultPower,
   r |-> calcRadius(DefaultPower, DefaultIndex, "biconvex")]

\* the new lens put first
addLensLenses_Prepend(ls, id) ==
  IF Len(ls) < MaxLenses THEN <<NewLens(id)>> \o ls ELSE ls

\* the cap test left out
addLensLenses_NoCap(ls, id) == Append(ls, NewLens(id))

addLensLenses(ls, id) ==
  IF Len(ls) < MaxLenses THEN Append(ls, NewLens(id)) ELSE ls

\* a distance appended with the first lens too
addLensDistances_Always(length, ds) == Append(ds, DefaultDistance)

\* `length` is read before the lens is appended
addLensDistances(length, ds) ==
  IF length > 0 THEN Append(ds, DefaultDistance) ELSE ds

\* the id taken from the length of the collection
addLens_IdFromLength(st) ==
  State(addLensLenses(st.lenses, Len(st.lenses) + 1),
        addLensDistances(Len(st.lenses), st.distances),
        st.nextId)

addLens(st) ==
  State(addLensLenses(st.lenses, st.nextId),
        addLensDistances(Len(st.lenses), st.distances),
        IF Len(st.lenses) < MaxLenses THEN st.nextId + 1 ELSE st.nextId)

\* the last distance removed whichever lens goes
deleteLensDistances_AlwaysLast(ls, ds, id) ==
  IF findIndex(ls, id) >= 0 THEN sliceLast(ds) ELSE ds

\* no distance removed with the last lens
deleteLensDistances_NoLast(ls, ds, id) ==
  IF findIndex(ls, id) < Len(filterId(ls, id)) THEN removeAt(ds, findIndex(ls, id))
  ELSE ds

\* an id that is not found taken for the last lens
deleteLensDistances_MissIsLast(ls, ds, id) ==
  IF findIndex(ls, id) >= 0 /\ findIndex(ls, id) < Len(filterId(ls, id))
  THEN removeAt(ds, findIndex(ls, id))
  ELSE IF Len(ds) > 0 THEN sliceLast(ds)
  ELSE ds

deleteLensDistances(ls, ds, id) ==
  LET deletedIndex == findIndex(ls, id)
      rest == filterId(ls, id)
  IN  IF deletedIndex < Len(rest) THEN removeAt(ds, deletedIndex)
      ELSE IF Len(ds) > 0 THEN sliceLast(ds)
      ELSE ds

deleteLens(st, id) ==
  State(filterId(st.lenses, id),
        deleteLensDistances(st.lenses, st.distances, id),
        st.nextId)

\* the test for zero left out
powerAccepted_NoZeroTest(newPower) == Gt(newPower, MinPower)

\* the lower bound included
powerAccepted_BoundIncluded(newPower) ==
  ~StrictEq(newPower, Int2Num(0)) /\ Ge(newPower, MinPower)

powerAccepted(newPower) ==
  ~StrictEq(newPower, Int2Num(0)) /\ Gt(newPower, MinPower)

\* the id not compared: every lens takes the new power
setPower_EveryLens(l, id, newPower) ==
  IF powerAccepted(newPower)
  THEN [l EXCEPT !.power = newPower, !.r = calcRadius(newPower, l.index, l.type)]
  ELSE l

setPower(l, id, newPower) ==
  IF l.id = id /\ powerAccepted(newPower)
  THEN [l EXCEPT !.power = newPower, !.r = calcRadius(newPower, l.index, l.type)]
  ELSE l

updateLensPower(st, id, newPower) ==
  State([i \in 1 .. Len(st.lenses) |-> setPower(st.lenses[i], id, newPower)],
        st.distances,
        st.nextId)

\* the minimum taken to be 1
indexAccepted_AboveOne(newIndex) == Ge(newIndex, Int2Num(1))

indexAccepted(newIndex) == Ge(newIndex, MinIndex)

\* the radius left as it was
setIndex_StaleRadius(l, id, newIndex) ==
  IF l.id = id THEN [l EXCEPT !.index = newIndex] ELSE l

setIndex(l, id, newIndex) ==
  IF l.id = id
  THEN [l EXCEPT !.index = newIndex, !.r = calcRadius(l.power, newIndex, l.type)]
  ELSE l

updateLensIndex(st, id, newIndex) ==
  State(IF indexAccepted(newIndex)
        THEN [i \in 1 .. Len(st.lenses) |-> setIndex(st.lenses[i], id, newIndex)]
        ELSE st.lenses,
        st.distances,
        st.nextId)

\* the minimum left out
distanceAccepted_NoMinimum(newDistance) == ~isNaN(newDistance)

distanceAccepted(newDistance) == ~isNaN(newDistance) /\ Ge(newDistance, MinDistance)

updateDistance(st, index, newDistance) ==
  State(st.lenses,
        IF distanceAccepted(newDistance)
        THEN [i \in 1 .. Len(st.distances) |->
                IF i - 1 = index THEN newDistance ELSE st.distances[i]]
        ELSE st.distances,
        st.nextId)

(* ------------------------------------------------------------------ *)
(* The calls: each runs one operation to completion                    *)
(* ------------------------------------------------------------------ *)
Becomes(st) ==
  /\ lenses' = st.lenses
  /\ distances' = st.distances
  /\ nextId' = st.nextId

AddLens ==
  /\ pc.op = "idle"
  /\ Len(lenses) < MaxLenses => nextId <= MaxId
  /\ Len(lenses) > 0 => Len(distances) < MaxDistances
  /\ Becomes(addLens(cur))
  /\ UNCHANGED <<dimensions, pc>>
  /\ last' = Call("addLens", Len(lenses), TRUE, Len(lenses) < MaxLenses)

DeleteLens(id) ==
  /\ pc.op = "idle"
  /\ Becomes(deleteLens(cur, id))
  /\ UNCHANGED <<dimensions, pc>>
  /\ last' = Call("deleteLens", findIndex(lenses, id), findIndex(lenses, id) >= 0, TRUE)

UpdateLensPower(id, newPower) ==
  /\ pc.op = "idle"
  /\ Becomes(updateLensPower(cur, id, newPower))
  /\ UNCHANGED <<dimensions, pc>>
  /\ last' = Call("updateLensPower", -1, findIndex(lenses, id) >= 0,
                  powerAccepted(newPower))

UpdateLensIndex(id, newIndex) ==
  /\ pc.op = "idle"
  /\ Becomes(updateLensIndex(cur, id, newIndex))
  /\ UNCHANGED <<dimensions, pc>>
  /\ last' = Call("updateLensIndex", -1, findIndex(lenses, id) >= 0,
                  indexAccepted(newIndex))

UpdateDistance(index, newDistance) ==
  /\ pc.op = "idle"
  /\ Becomes(updateDistance(cur, index, newDistance))
  /\ UNCHANGED <<dimensions, pc>>
  /\ last' = Call("updateDistance", -1, index >= 0 /\ index < Len(distances),
                  distanceAccepted(newDistance))

Next ==
  \/ AddLens
  \/ \E id \in Ids : DeleteLens(id)
  \/ \E id \in Ids, p \in PowerArgs : UpdateLensPower(id, p)
  \/ \E id \in Ids, n \in IndexArgs : UpdateLensIndex(id, n)
  \/ \E i \in DistanceIndexArgs, d \in DistanceArgs : UpdateDistance(i, d)

Spec == Init /\ [][Next]_vars

(* ------------------------------------------------------------------ *)
(* The handlers write by write.  addLens and deleteLens assign          *)
(* lenses.value and then distances.value; the other handlers assign    *)
(* once.  A handler runs to its end before anything else runs: an      *)
(* assignment to a signal only marks the components that read it, and  *)
(* they are rendered again after the handler has returned.             *)
(* ------------------------------------------------------------------ *)
AddLensWriteLenses ==
  /\ pc.op = "idle"
  /\ Len(lenses) < MaxLenses => nextId <= MaxId
  /\ Len(lenses) > 0 => Len(distances) < MaxDistances
  /\ lenses' = addLensLenses(lenses, nextId)
  /\ nextId' = IF Len(lenses) < MaxLenses THEN nextId + 1 ELSE nextId
  /\ pc' = [op |-> "addLens", length |-> Len(lenses)]
  /\ last' = Call("addLens", Len(lenses), TRUE, Len(lenses) < MaxLenses)
  /\ UNCHANGED <<distances, dimensions>>

AddLensWriteDistances ==
  /\ pc.op = "addLens"
  /\ distances' = addLensDistances(pc.length, distances)
  /\ pc' = Idle
  /\ UNCHANGED <<lenses, nextId, dimensions, last>>

DeleteLensWriteLenses(id) ==
  /\ pc.op = "idle"
  /\ lenses' = filterId(lenses, id)
  /\ pc' = [op |-> "deleteLens", deletedIndex |-> findIndex(lenses, id)]
  /\ last' = Call("deleteLens", findIndex(lenses, id), findIndex(lenses, id) >= 0, TRUE)
  /\ UNCHANGED <<distances, nextId, dimensions>>

\* `deletedIndex` was found before the lenses were filtered, lenses.value.length
\* is read after
DeleteLensWriteDistances ==
  /\ pc.op = "deleteLens"
  /\ distances' = IF pc.deletedIndex < Len(lenses) THEN removeAt(distances, pc.deletedIndex)
                  ELSE IF Len(distances) > 0 THEN sliceLast(distances)
                  ELSE distances
  /\ pc' = Idle
  /\ UNCHANGED <<lenses, nextId, dimensions, last>>

\* the components read both signals
Render ==
  /\ pc.op = "idle"
  /\ last' = [op |-> "render", lenses |-> lenses, distances |-> distances]
  /\ UNCHANGED <<lenses, distances, nextId, dimensions, pc>>

StepNext ==
  \/ AddLensWriteLenses
  \/ AddLensWriteDistances
  \/ \E id \in Ids : DeleteLensWriteLenses(id)
  \/ DeleteLensWriteDistances
  \/ \E id \in Ids, p \in PowerArgs : UpdateLensPower(id, p)
  \/ \E id \in Ids, n \in IndexArgs : UpdateLensIndex(id, n)
  \/ \E i \in DistanceIndexArgs, d \in DistanceArgs : UpdateDistance(i, d)
  \/ Render

StepSpec == Init /\ [][StepNext]_vars

(* ------------------------------------------------------------------ *)
(* The collection with lenses whose power was never set.  The Lens     *)
(* type with optional fields (`power?`, `r?`) admits them and the      *)
(* addLens of the earlier Config.tsx creates them; the addLens above   *)
(* never does.                                                         *)
(* ------------------------------------------------------------------ *)
LensWithoutPower(id) ==
  [id |-> id, type |-> "biconvex", index |-> DefaultIndex, power |-> undefined,
   r |-> undefined]

\* collections of 1 or 2 lenses with ids 1, 2, each with or without power
OptionalPowerLenses(n) ==
  {ls \in [1 .. n -> {NewLens(id) : id \in 1 .. n} \cup {LensWithoutPower(id) : id \in 1 .. n}] :
     \A i \in 1 .. n : ls[i].id = i}

OptionalPowerInit ==
  /\ \E n \in 1 .. 2 :
       /\ lenses \in OptionalPowerLenses(n)
       /\ distances = [i \in 1 .. (n - 1) |-> DefaultDistance]
       /\ nextId = n + 1
  /\ dimensions = DefaultDimensions
  /\ pc = Idle
  /\ last = Call("none", -1, FALSE, FALSE)

OptionalPowerSpec == OptionalPowerInit /\ [][Next]_vars

(* ------------------------------------------------------------------ *)
(* Renderer.tsx: layout and ray trace                                  *)
(* ------------------------------------------------------------------ *)
pixelsPerMeter == Int2Num(200)
StartX == Int2Num(200)
EndMargin == Int2Num(100)
SlopeFactor == Tenths(1)

centerY(dims) == Div(dims.height, Int2Num(2))
h(dims) == Div(dims.height, Int2Num(3))

\* distances.value[i], i counted from 0: undefined past the end
entry(ds, i) == IF i >= 0 /\ i < Len(ds) THEN ds[i + 1] ELSE undefined

\* a missing entry counted as nothing
distanceOrDefault_Zero(ds, i) ==
  IF Truthy(entry(ds, i)) THEN entry(ds, i) ELSE Int2Num(0)

\* distances.value[i] || 1.0
distanceOrDefault(ds, i) ==
  IF Truthy(entry(ds, i)) THEN entry(ds, i) ELSE DefaultDistance

\* the distances added in meters, not in pixels
RECURSIVE totalDistance_Unscaled(_, _, _, _)
totalDistance_Unscaled(ds, i, index, total) ==
  IF i < index
  THEN totalDistance_Unscaled(ds, i + 1, index, Add(total, distanceOrDefault(ds, i)))
  ELSE total

\* the for loop of calculateLensX from i up to index - 1
RECURSIVE totalDistance(_, _, _, _)
totalDistance(ds, i, index, total) ==
  IF i < index
  THEN totalDistance(ds, i + 1, index,
                     Add(total, Mul(distanceOrDefault(ds, i), pixelsPerMeter)))
  ELSE total

calculateLensX(ds, index) ==
  IF index = 0 THEN StartX ELSE totalDistance(ds, 0, index, StartX)

Point(x, y) == [x |-> x, y |-> y]

\* the bend away from the axis
deltaSlope_SignFlipped(height, power) == Mul(Div(height, pixelsPerMeter), power)

\* the size of the height taken, not its side
deltaSlope_AbsHeight(height, power) ==
  Mul(Neg(Div(IF Lt(height, Int2Num(0)) THEN Neg(height) ELSE height, pixelsPerMeter)), power)

\* -(h / pixelsPerMeter) * lens.power, h the height of the ray over the axis
deltaSlope(height, power) == Mul(Neg(Div(height, pixelsPerMeter)), power)

\* the height measured from the top of the canvas, not from the axis
crossLens_HeightFromTop(ray, lens, i, ds, dims) ==
  LET lensX == calculateLensX(ds, i)
      deltaX == Sub(lensX, ray.currentX)
      y == Add(ray.currentYPos, Mul(ray.currentSlope, deltaX))
  IN  [pathData |-> Append(ray.pathData, Point(lensX, y)),
       currentX |-> lensX,
       currentYPos |-> y,
       currentSlope |-> Add(ray.currentSlope, Mul(deltaSlope(y, lens.power), SlopeFactor))]

\* one round of the forEach of simpleRayTrace: the ray reaches lens i
crossLens(ray, lens, i, ds, dims) ==
  LET lensX == calculateLensX(ds, i)
      deltaX == Sub(lensX, ray.currentX)
      y == Add(ray.currentYPos, Mul(ray.currentSlope, deltaX))
  IN  [pathData |-> Append(ray.pathData, Point(lensX, y)),
       currentX |-> lensX,
       currentYPos |-> y,
       currentSlope |-> Add(ray.currentSlope,
                            Mul(deltaSlope(Sub(y, centerY(dims)), lens.power), SlopeFactor))]

RECURSIVE forEachLens(_, _, _, _, _)
forEachLens(ray, ls, i, ds, dims) ==
  IF i < Len(ls)
  THEN forEachLens(crossLens(ray, ls[i + 1], i, ds, dims), ls, i + 1, ds, dims)
  ELSE ray

\* the right edge of the canvas whatever the lenses
endX_AlwaysWidth(dims, currentX) == dims.width

endX(dims, currentX) == MathMax(dims.width, Add(currentX, EndMargin))

\* the path without its last segment
lastSegment_None(ray, dims) == ray.pathData

lastSegment(ray, dims) ==
  LET x == endX(dims, ray.currentX)
  IN  Append(ray.pathData,
             Point(x, Add(ray.currentYPos, Mul(ray.currentSlope, Sub(x, ray.currentX)))))

\* the path as the sequence of its points: "M" the first, "L" each other one
simpleRayTrace(startY, ls, ds, dims) ==
  lastSegment(forEachLens([pathData |-> <<Point(Int2Num(0), startY)>>,
                           currentX |-> Int2Num(0),
                           currentYPos |-> startY,
                           currentSlope |-> Int2Num(0)],
                          ls, 0, ds, dims),
              dims)

\* only the lenses of positive radius kept
currentLenses_PositiveOnly(ls) == SelectSeq(ls, LAMBDA l : Gt(l.r, Int2Num(0)))

\* lenses.value.filter((l) => l.r): the lenses that are drawn
currentLenses(ls) == SelectSeq(ls, LAMBDA l : Truthy(l.r))

\* the x of each lens shape: the i-th of the lenses drawn is put at calculateLensX(i)
lensCenterX(ls, ds) ==
  [i \in 1 .. Len(currentLenses(ls)) |-> calculateLensX(ds, i - 1)]

\* the rays drawn: 4 over the axis, 4 under it, (h / 8) * i away from it;
\* ray 0 is the axis itself
MaxRay == 4
RayArgs == (0 - MaxRay) .. MaxRay
startYOf(dims, i) == Add(centerY(dims), Mul(Div(h(dims), Int2Num(8)), Int2Num(i)))

(* ------------------------------------------------------------------ *)
(* The renderer as a reader: the collection is given, the canvas is    *)
(* measured, a lens position or a ray is computed.                     *)
(* ------------------------------------------------------------------ *)
MaxIndex == 3
RenderPowers == {Int2Num(6), Int2Num(4), Int2Num(-4)}
RenderDistances == {DefaultDistance, Tenths(15), MinDistance}
DimensionArgs == {DefaultDimensions, [width |-> Int2Num(600), height |-> Int2Num(300)]}

LensOf(id, power) ==
  [id |-> id, type |-> "biconvex", index |-> DefaultIndex, power |-> power,
   r |-> calcRadius(power, DefaultIndex, "biconvex")]

RenderLenses(n) ==
  {ls \in [1 .. n -> {LensOf(id, p) : id \in 1 .. n, p \in RenderPowers}] :
     \A i \in 1 .. n : ls[i].id = i}

RenderInit ==
  /\ \E n \in 0 .. MaxLenses :
       /\ lenses \in RenderLenses(n)
       /\ distances \in [1 .. (IF n = 0 THEN 0 ELSE n - 1) -> RenderDistances]
       /\ nextId = n + 1
  /\ dimensions = DefaultDimensions
  /\ pc = Idle
  /\ last = [op |-> "none"]

UpdateDimensions(dims) ==
  /\ dimensions' = dims
  /\ last' = [op |-> "updateDimensions"]
  /\ UNCHANGED <<lenses, distances, nextId, pc>>

\* the entries that are not there written into Distances
CalculateLensX_FillsDistances(index) ==
  /\ last' = [op |-> "calculateLensX", index |-> index,
              x |-> calculateLensX(distances, index)]
  /\ distances' = [i \in 1 .. (IF index > Len(distances) THEN index ELSE Len(distances)) |->
                     distanceOrDefault(distances, i - 1)]
  /\ UNCHANGED <<lenses, nextId, dimensions, pc>>

CalculateLensX(index) ==
  /\ last' = [op |-> "calculateLensX", index |-> index,
              x |-> calculateLensX(distances, index)]
  /\ UNCHANGED <<lenses, distances, nextId, dimensions, pc>>

SimpleRayTrace(i) ==
  /\ last' = [op |-> "simpleRayTrace", ray |-> i, startY |-> startYOf(dimensions, i),
              pathData |-> simpleRayTrace(startYOf(dimensions, i), lenses, distances,
                                          dimensions)]
  /\ UNCHANGED <<lenses, distances, nextId, dimensions, pc>>

RenderNext ==
  \/ \E dims \in DimensionArgs : UpdateDimensions(dims)
  \/ \E index \in 0 .. MaxIndex : CalculateLensX(index)
  \/ \E i \in RayArgs : SimpleRayTrace(i)

RenderSpec == RenderInit /\ [][RenderNext]_vars

(* ------------------------------------------------------------------ *)
(* lenses.ts: calcRadius called on its own, in both variants           *)
(* ------------------------------------------------------------------ *)
RadiusPowers == PowerArgs \cup {Int2Num(6), Int2Num(4)}
RadiusIndices == IndexArgs \cup {Int2Num(1)}
LensTypes == {"biconvex", "biconcave"}

RadiusInit ==
  /\ lenses = <<>>
  /\ distances = <<>>
  /\ nextId = 1
  /\ dimensions = DefaultDimensions
  /\ pc = Idle
  /\ last = [op |-> "none"]

CalcRadius(power, index, type) ==
  /\ last' = [op |-> "calcRadius", power |-> power, index |-> index, type |-> type,
              r |-> calcRadius(power, index, type)]
  /\ UNCHANGED <<lenses, distances, nextId, dimensions, pc>>

CalcRadiusOrNull(power, index, type) ==
  /\ last' = [op |-> "calcRadiusOrNull", power |-> power, index |-> index,
              type |-> type, r |-> calcRadiusOrNull(power, index, type)]
  /\ UNCHANGED <<lenses, distances, nextId, dimensions, pc>>

RadiusNext ==
  \/ \E power \in RadiusPowers, index \in RadiusIndices, type \in LensTypes :
       CalcRadius(power, index, type)
  \/ \E power \in RadiusPowers, index \in RadiusIndices, type \in LensTypes :
       CalcRadiusOrNull(power, index, type)

RadiusSpec == RadiusInit /\ [][RadiusNext]_vars

(* ------------------------------------------------------------------ *)
(* Config.tsx: the two stepper buttons of the power field.  The lens   *)
(* has a power in tenths, as typed into the field or stepped to.       *)
(* ------------------------------------------------------------------ *)
\* a step of two tenths
decrementRequest_TwoTenths(power) == Sub(power, Tenths(2))

\* Math.floor((lens.power - 0.1) * 10) / 10
decrementRequest(power) ==
  Div(MathFloor(Mul(Sub(power, Tenths(1)), Int2Num(10))), Int2Num(10))

\* Math.ceil((lens.power + 0.1) * 10) / 10
incrementRequest(power) ==
  Div(MathCeil(Mul(Add(power, Tenths(1)), Int2Num(10))), Int2Num(10))

MaxStepperTenths == 12
StepperPowers == {Tenths(t) : t \in (-77 .. MaxStepperTenths) \ {0}}

StepperInit ==
  /\ \E power \in StepperPowers : lenses = <<LensOf(1, power)>>
  /\ distances = <<>>
  /\ nextId = 2
  /\ dimensions = DefaultDimensions
  /\ pc = Idle
  /\ last = [op |-> "none"]

PressDecrement(i) ==
  /\ pc.op = "idle"
  /\ i \in 1 .. Len(lenses)
  /\ Becomes(updateLensPower(cur, lenses[i].id, decrementRequest(lenses[i].power)))
  /\ last' = [op |-> "decrement", position |-> i, before |-> lenses[i],
              requested |-> decrementRequest(lenses[i].power)]
  /\ UNCHANGED <<dimensions, pc>>

PressIncrement(i) ==
  /\ pc.op = "idle"
  /\ i \in 1 .. Len(lenses)
  /\ Le(incrementRequest(lenses[i].power), Tenths(MaxStepperTenths))
  /\ Becomes(updateLensPower(cur, lenses[i].id, incrementRequest(lenses[i].power)))
  /\ last' = [op |-> "increment", position |-> i, before |-> lenses[i],
              requested |-> incrementRequest(lenses[i].power)]
  /\ UNCHANGED <<dimensions, pc>>

StepperNext ==
  \/ \E i \in 1 .. MaxLenses : PressDecrement(i)
  \/ \E i \in 1 .. MaxLenses : PressIncrement(i)

StepperSpec == StepperInit /\ [][StepperNext]_vars

(* ------------------------------------------------------------------ *)
(* Properties                                                          *)
(* ------------------------------------------------------------------ *)
Max(a, b) == IF a >= b THEN a ELSE b

LengthInvariant(st) == Len(st.distances) = Max(Len(st.lenses) - 1, 0)

HasId(ls, id) == \E i \in 1 .. Len(ls) : ls[i].id = id

\* C1: in every reachable state the number of Distances entries is
\* max(number of lenses - 1, 0).
C1_DistancesOneFewer == LengthInvariant(cur)

\* C2: addLens called on a collection of 3 lenses changes neither the lenses
\* nor Distances.
C2_AddAtCapIsNoOp ==
  Len(lenses) = 3 =>
    LET after == addLens(cur)
    IN  after.lenses = lenses /\ after.distances = distances

\* C3: in every reachable state the collection holds at most 3 lenses.
C3_AtMostThreeLenses == Len(lenses) <= 3

C3_Witness ==
  /\ last.op = "addLens" /\ ~last.ok
  /\ Len(lenses) = 3

\* C4: deleteLens of the lens at 0-based index k removes exactly one Distances
\* entry: the one at index k when a lens follows, the last one when k is the
\* last index; the other entries keep their values and order; nothing is
\* removed from an empty Distances.
C4_Removed(ds, ds2, k) ==
  /\ Len(ds2) = Len(ds) - 1
  /\ \A i \in 1 .. Len(ds2) : ds2[i] = IF i <= k THEN ds[i] ELSE ds[i + 1]

C4_DeleteRemovesByPosition ==
  \A k \in 0 .. (Len(lenses) - 1) :
    LET after == deleteLens(cur, lenses[k + 1].id).distances
    IN  IF k < Len(lenses) - 1 THEN C4_Removed(distances, after, k)
        ELSE IF Len(distances) = 0 THEN after = distances
        ELSE C4_Removed(distances, after, Len(distances) - 1)

C4_Witness ==
  /\ last.op = "deleteLens" /\ last.k = 1
  /\ Len(lenses) = 2
  /\ distances = <<Tenths(2)>>

\* C5: deleteLens, called in a state where the length invariant holds, with any
\* id, ends in a state where it holds.
C5_DeleteKeepsLengthInvariant ==
  LengthInvariant(cur) => \A id \in Ids : LengthInvariant(deleteLens(cur, id))

C5_Witness ==
  /\ last.op = "deleteLens" /\ last.hit /\ last.k = 1
  /\ Len(lenses) = 1
  /\ Len(distances) = 0

\* C6: deleteLens with an id no lens has leaves the lenses and Distances with
\* the contents they had.
C6_DeleteAbsentIdIsNoOp ==
  \A id \in Ids :
    ~HasId(lenses, id) =>
      LET after == deleteLens(cur, id)
      IN  after.lenses = lenses /\ after.distances = distances

C6_Witness ==
  /\ last.op = "deleteLens" /\ ~last.hit
  /\ Len(lenses) = 2
  /\ Len(distances) = 1

\* C7: addLens with fewer than 3 lenses appends one lens (biconvex, index 1.5,
\* power 6, r 1/6) after the existing ones, which it leaves as they are, and
\* appends the distance 1.0 exactly when there was a lens before the call.
C7_AddAppendsDefaultLens ==
  Len(lenses) < 3 =>
    LET after == addLens(cur)
        new == after.lenses[Len(after.lenses)]
    IN  /\ Len(after.lenses) = Len(lenses) + 1
        /\ SubSeq(after.lenses, 1, Len(lenses)) = lenses
        /\ new.type = "biconvex"
        /\ new.index = Num(15, 10)
        /\ new.power = Num(6, 1)
        /\ new.r = Num(1, 6)
        /\ after.distances = IF Len(lenses) >= 1 THEN distances \o <<Num(1, 1)>>
                             ELSE distances

C7_Witness ==
  /\ last.op = "addLens" /\ last.ok /\ last.k = 1
  /\ Len(lenses) = 2
  /\ distances = <<Num(1, 1)>>

\* C8: updateLensPower with a power that is 0, at most -7.8 or not a number
\* leaves the lens it names, and the rest of the state, as they were.
C8_Rejected(p) == isNaN(p) \/ (IsNum(p) /\ p.n = 0) \/ Le(p, Num(-78, 10))

C8_BadPowerIsNoOp ==
  \A id \in Ids : \A p \in PowerArgs :
    C8_Rejected(p) => updateLensPower(cur, id, p) = cur

C8_Witness ==
  /\ last.op = "updateLensPower" /\ last.hit /\ ~last.ok
  /\ Len(lenses) >= 1

\* C9: in every reachable state every lens has a power that is a number,
\* is not 0 and is greater than -7.8.
C9_PowerInRange ==
  \A i \in 1 .. Len(lenses) :
    /\ IsNum(lenses[i].power)
    /\ lenses[i].power.n # 0
    /\ Gt(lenses[i].power, Num(-78, 10))

C9_Witness ==
  /\ last.op = "updateLensPower" /\ last.hit /\ last.ok
  /\ \E i \in 1 .. Len(lenses) : lenses[i].power = Num(-77, 10)

\* C10: in every reachable state every lens has index >= 1.5; updateLensIndex
\* with an index below 1.5 leaves the whole state as it was; a new lens starts
\* at 1.5.
C10_IndexAtLeastMin ==
  /\ \A i \in 1 .. Len(lenses) : Ge(lenses[i].index, Num(15, 10))
  /\ \A id \in Ids : \A n \in IndexArgs :
       Lt(n, Num(15, 10)) => updateLensIndex(cur, id, n) = cur
  /\ Len(lenses) < 3 =>
       addLens(cur).lenses[Len(lenses) + 1].index = Num(15, 10)

C10_Witness ==
  /\ last.op = "updateLensIndex" /\ last.hit /\ ~last.ok
  /\ \E i \in 1 .. Len(lenses) : lenses[i].index = Num(16, 10)

\* C11: in every reachable state every lens has r = calcRadius(power, index,
\* type) = 2 * (index - 1) / power for the power and index it has now.
C11_RadiusFollowsInputs ==
  \A i \in 1 .. Len(lenses) :
    LET l == lenses[i]
    IN  /\ l.r = calcRadius(l.power, l.index, l.type)
        /\ IsNum(l.r)
        /\ l.r.n * l.power.n * l.index.d = 2 * (l.index.n - l.index.d) * l.r.d * l.power.d

C11_Witness ==
  /\ last.op = "updateLensIndex" /\ last.ok
  /\ \E i \in 1 .. Len(lenses) :
       /\ lenses[i].power = Num(-77, 10)
       /\ lenses[i].index = Num(16, 10)
       /\ lenses[i].r = Num(-12, 77)

\* C13: in every reachable state every Distances entry is >= 0.2;
\* updateDistance(index, d) with a number d >= 0.2 replaces the entry at
\* `index` and no other; with d not a number, d < 0.2 or `index` out of range
\* Distances keeps its contents and length.
C13_DistanceIndices == -1 .. MaxDistances

C13_DistancesAtLeastMin ==
  /\ \A i \in 1 .. Len(distances) : Ge(distances[i], Num(2, 10))
  /\ \A index \in C13_DistanceIndices : \A d \in DistanceArgs :
       LET after == updateDistance(cur, index, d).distances
       IN  IF IsNum(d) /\ d.n * 10 >= 2 * d.d /\ index >= 0 /\ index < Len(distances)
           THEN /\ Len(after) = Len(distances)
                /\ after[index + 1] = d
                /\ \A j \in 1 .. Len(distances) : j # index + 1 => after[j] = distances[j]
           ELSE after = distances

C13_Witness ==
  /\ last.op = "updateDistance" /\ last.ok
  /\ distances = <<Num(1, 1), Num(2, 10)>>

\* C14: lens ids are unique and never reused: the lenses of the collection
\* have different ids, all below nextId; nextId never goes down; addLens gives
\* the new lens the id nextId and moves nextId past it; no operation changes
\* the id of a lens that stays.
C14_Ids(ls) == [i \in 1 .. Len(ls) |-> ls[i].id]

C14_SameIds(st) == C14_Ids(st.lenses) = C14_Ids(lenses) /\ st.nextId = nextId

C14_IdsUniqueNeverReused ==
  /\ \A i \in 1 .. Len(lenses) : lenses[i].id < nextId
  /\ \A i \in 1 .. Len(lenses) : \A j \in 1 .. Len(lenses) :
       i # j => lenses[i].id # lenses[j].id
  /\ LET after == addLens(cur)
     IN  IF Len(lenses) < 3
         THEN /\ C14_Ids(after.lenses) = C14_Ids(lenses) \o <<nextId>>
              /\ after.nextId = nextId + 1
         ELSE C14_SameIds(after)
  /\ \A id \in Ids :
       LET after == deleteLens(cur, id)
       IN  /\ C14_Ids(after.lenses) = SelectSeq(C14_Ids(lenses), LAMBDA x : x # id)
           /\ after.nextId = nextId
  /\ \A id \in Ids :
       /\ \A p \in PowerArgs : C14_SameIds(updateLensPower(cur, id, p))
       /\ \A n \in IndexArgs : C14_SameIds(updateLensIndex(cur, id, n))
  /\ \A index \in DistanceIndexArgs : \A d \in DistanceArgs :
       C14_SameIds(updateDistance(cur, index, d))

C14_Witness ==
  /\ last.op = "addLens" /\ last.ok /\ last.k = 1
  /\ C14_Ids(lenses) = <<2, 3>>

RECURSIVE C16_Sum(_)
C16_Sum(k) ==
  IF k = 0 THEN Int2Num(0)
  ELSE Add(C16_Sum(k - 1), IF k <= Len(distances) THEN distances[k] ELSE Int2Num(1))

C16_PositionIsScaledSum ==
  last.op = "calculateLensX" =>
    /\ last.x = Add(Int2Num(200), Mul(Int2Num(200), C16_Sum(last.index)))
    /\ last.index = 0 => last.x = Int2Num(200)
    /\ (last.index = 2 /\ distances = <<Int2Num(1), Tenths(15)>>) => last.x = Int2Num(700)

C16_Witness ==
  /\ last.op = "calculateLensX" /\ last.index = 2
  /\ distances = <<Int2Num(1), Tenths(15)>>
  /\ last.x = Int2Num(700)

\* C17: simpleRayTrace gives a path of exactly n + 2 points with finite
\* coordinates for a collection of n lenses, 0 <= n <= 3, and any start height;
\* for the empty collection both points have the start height as y.
C17_TraceHasNPlusTwoPoints ==
  last.op = "simpleRayTrace" =>
    /\ Len(lenses) \in 0 .. 3
    /\ Len(last.pathData) = Len(lenses) + 2
    /\ \A k \in 1 .. Len(last.pathData) :
         IsNum(last.pathData[k].x) /\ IsNum(last.pathData[k].y)
    /\ Len(lenses) = 0 =>
         last.pathData[1].y = last.startY /\ last.pathData[2].y = last.startY

C17_Witness ==
  /\ last.op = "simpleRayTrace"
  /\ Len(lenses) = 3
  /\ Len(last.pathData) = 5

\* C18: simpleRayTrace(startY, lenses) is the reference fold: from x = 0,
\* y = startY, slope = 0, lens i is crossed at (calculateLensX(i),
\* y + slope * (calculateLensX(i) - x)), the slope then grows by
\* 0.1 * (-(y - centerY) / 200 * power_i) for the y of the crossing; the last
\* point is at max(canvas width, x of the last lens + 100), y continued at the
\* last slope.
C18_X(k) == IF k = 0 THEN Int2Num(0) ELSE calculateLensX(distances, k - 1)

RECURSIVE C18_Y(_, _), C18_Slope(_, _)
C18_Y(startY, k) ==
  IF k = 0 THEN startY
  ELSE Add(C18_Y(startY, k - 1),
           Mul(C18_Slope(startY, k - 1), Sub(C18_X(k), C18_X(k - 1))))

C18_Slope(startY, k) ==
  IF k = 0 THEN Int2Num(0)
  ELSE Add(C18_Slope(startY, k - 1),
           Mul(Tenths(1),
               Mul(Div(Neg(Sub(C18_Y(startY, k), Div(dimensions.height, Int2Num(2)))),
                       Int2Num(200)),
                   lenses[k].power)))

C18_EndX ==
  LET x == Add(C18_X(Len(lenses)), Int2Num(100))
  IN  IF Ge(dimensions.width, x) THEN dimensions.width ELSE x

C18_TraceIsReferenceFold ==
  last.op = "simpleRayTrace" =>
    LET n == Len(lenses)
        path == last.pathData
    IN  /\ Len(path) = n + 2
        /\ path[1] = Point(Int2Num(0), last.startY)
        /\ \A k \in 1 .. n : path[k + 1] = Point(C18_X(k), C18_Y(last.startY, k))
        /\ path[n + 2] =
             Point(C18_EndX,
                   Add(C18_Y(last.startY, n),
                       Mul(C18_Slope(last.startY, n), Sub(C18_EndX, C18_X(n)))))

C18_Witness ==
  /\ last.op = "simpleRayTrace" /\ last.ray = 2
  /\ Len(lenses) = 3
  /\ Gt(last.pathData[5].x, dimensions.width)
  /\ ~StrictEq(last.pathData[5].y, last.pathData[4].y)

\* C19: with two biconvex lenses of powers 6 and 4, index 1.5, 1.0 apart:
\* r1 = 1/6, r2 = 1/4, lens 2 is at 400, and a ray that starts over the axis
\* (y below centerY on the canvas) turns toward the axis at lens 1 and again
\* at lens 2: each segment's slope dy/dx is greater than the one before.
C19_Scenario ==
  /\ lenses = <<LensOf(1, Int2Num(6)), LensOf(2, Int2Num(4))>>
  /\ distances = <<Int2Num(1)>>
  /\ last.op = "simpleRayTrace"
  /\ last.ray < 0

C19_SegmentSlope(path, k) ==
  Div(Sub(path[k + 1].y, path[k].y), Sub(path[k + 1].x, path[k].x))

C19_TwoLensesBendTowardAxis ==
  C19_Scenario =>
    /\ Lt(last.startY, Div(dimensions.height, Int2Num(2)))
    /\ lenses[1].r = Num(1, 6) /\ lenses[2].r = Num(1, 4)
    /\ last.pathData[2].x = Int2Num(200) /\ last.pathData[3].x = Int2Num(400)
    /\ StrictEq(C19_SegmentSlope(last.pathData, 1), Int2Num(0))
    /\ Gt(C19_SegmentSlope(last.pathData, 2), C19_SegmentSlope(last.pathData, 1))
    /\ Gt(C19_SegmentSlope(last.pathData, 3), C19_SegmentSlope(last.pathData, 2))

C19_Witness ==
  /\ C19_Scenario
  /\ last.ray = -4
  /\ Gt(C19_SegmentSlope(last.pathData, 3), C19_SegmentSlope(last.pathData, 2))

\* C15 as stated: calcRadius(power, index, type) is 2 * (index - 1) / power for
\* every power other than 0, every index and both lens types, and the absent
\* value at power 0.
C15_IsCall == last.op \in {"calcRadius", "calcRadiusOrNull"}

C15_Quotient ==
  IF IsNum(last.power) /\ IsNum(last.index)
  THEN /\ IsNum(last.r)
       /\ last.r.n * last.power.n * last.index.d
            = 2 * (last.index.n - last.index.d) * last.r.d * last.power.d
  ELSE last.r = NaN

C15_TypesAgree ==
  /\ calcRadius(last.power, last.index, "biconvex")
       = calcRadius(last.power, last.index, "biconcave")
  /\ calcRadiusOrNull(last.power, last.index, "biconvex")
       = calcRadiusOrNull(last.power, last.index, "biconcave")

C20_ReadersSeeLengthInvariant ==
  last.op = "render" =>
    /\ pc.op = "idle"
    /\ Len(last.distances) = Max(Len(last.lenses) - 1, 0)

\* C21: calculateLensX and simpleRayTrace only read: a step that evaluates one
\* of them leaves the lens collection, Distances and nextId as they were.
C21_RendererOnlyReads ==
  [][last'.op \in {"calculateLensX", "simpleRayTrace"} =>
       (lenses' = lenses /\ distances' = distances /\ nextId' = nextId)]_vars

C21_Witness ==
  /\ last.op = "calculateLensX" /\ last.index = 3
  /\ Len(lenses) = 3 /\ Len(distances) = 2
  /\ nextId = 4

\* C22: no operation reorders the lenses: in every reachable state the ids of
\* the collection are strictly increasing along the sequence, so the lenses
\* stand in the order of their creation.
C22_IdsIncreaseAlongSequence ==
  \A i \in 1 .. Len(lenses) : \A j \in 1 .. Len(lenses) :
    i < j => lenses[i].id < lenses[j].id

C22_Witness ==
  /\ last.op = "deleteLens" /\ last.k = 1
  /\ C14_Ids(lenses) = <<1, 3>>

\* C23: in every state a render reads, every lens has an r that is a number
\* other than 0, so the filter on a truthy r keeps every lens, and the i-th
\* lens shape is drawn at the x at which the ray trace, which goes over the
\* unfiltered collection, crosses lens i.
C23_EveryLensIsDrawnWhereTheRayBends ==
  last.op = "render" =>
    /\ \A i \in 1 .. Len(last.lenses) :
         IsNum(last.lenses[i].r) /\ last.lenses[i].r.n # 0
    /\ currentLenses(last.lenses) = last.lenses
    /\ LET path == simpleRayTrace(centerY(dimensions), last.lenses, last.distances,
                                   dimensions)
           shapes == lensCenterX(last.lenses, last.distances)
       IN  /\ Len(shapes) = Len(last.lenses)
           /\ \A i \in 1 .. Len(last.lenses) : shapes[i] = path[i + 1].x

C23_Witness ==
  /\ last.op = "render"
  /\ Len(last.lenses) = 3
  /\ Lt(last.lenses[2].r, Int2Num(0))
  /\ lensCenterX(last.lenses, last.distances)[3] = Int2Num(600)

\* C24: updateLensPower(id, p) and updateLensIndex(id, n) change at most the
\* lens with that id: the other lenses, the number and order of the lenses,
\* Distances and nextId stay, and with no lens of that id the whole state
\* stays; updateDistance never changes the lens collection.
C24_AtMostLens(st, id) ==
  /\ Len(st.lenses) = Len(lenses)
  /\ \A i \in 1 .. Len(lenses) :
       /\ st.lenses[i].id = lenses[i].id
       /\ lenses[i].id # id => st.lenses[i] = lenses[i]
  /\ st.distances = distances
  /\ st.nextId = nextId
  /\ ~HasId(lenses, id) => st = cur

C24_UpdatesChangeOneLens ==
  /\ \A id \in Ids :
       /\ \A p \in PowerArgs : C24_AtMostLens(updateLensPower(cur, id, p), id)
       /\ \A n \in IndexArgs : C24_AtMostLens(updateLensIndex(cur, id, n), id)
  /\ \A index \in DistanceIndexArgs : \A d \in DistanceArgs :
       updateDistance(cur, index, d).lenses = lenses

C24_Witness ==
  /\ last.op = "updateLensPower" /\ last.ok
  /\ Len(lenses) = 3
  /\ lenses[1].power = DefaultPower /\ lenses[3].power = DefaultPower
  /\ lenses[2].power = Tenths(-77)
  /\ distances = <<DefaultDistance, DefaultDistance>>

\* C25: a ray that starts on the optical axis (startY = centerY) is never bent:
\* whatever the lenses, their powers and the distances, every point of its
\* path has y = centerY and every segment has slope 0.
C25_AxisRayStaysOnAxis ==
  (last.op = "simpleRayTrace" /\ last.ray = 0) =>
    /\ last.startY = Div(dimensions.height, Int2Num(2))
    /\ Len(last.pathData) = Len(lenses) + 2
    /\ \A k \in 1 .. Len(last.pathData) :
         last.pathData[k].y = Div(dimensions.height, Int2Num(2))
    /\ \A k \in 1 .. (Len(last.pathData) - 1) :
         Div(Sub(last.pathData[k + 1].y, last.pathData[k].y),
             Sub(last.pathData[k + 1].x, last.pathData[k].x)) = Int2Num(0)

C25_Witness ==
  /\ last.op = "simpleRayTrace" /\ last.ray = 0
  /\ Len(lenses) = 3
  /\ lenses[2].power = Int2Num(-4)
  /\ last.pathData[5].y = Int2Num(200)

\* C26: the trace is mirrored by the optical axis: the paths of the rays that
\* start at centerY + d and at centerY - d have the same x coordinates, and
\* their y coordinates are reflections of each other about centerY.
C26_TraceIsMirrored ==
  last.op = "simpleRayTrace" =>
    LET other == simpleRayTrace(startYOf(dimensions, 0 - last.ray), lenses, distances,
                                dimensions)
    IN  /\ Add(last.startY, startYOf(dimensions, 0 - last.ray)) = dimensions.height
        /\ Len(other) = Len(last.pathData)
        /\ \A k \in 1 .. Len(other) :
             /\ other[k].x = last.pathData[k].x
             /\ Sub(other[k].y, Div(dimensions.height, Int2Num(2)))
                  = Sub(Div(dimensions.height, Int2Num(2)), last.pathData[k].y)

C26_Witness ==
  /\ last.op = "simpleRayTrace" /\ last.ray = 3
  /\ Len(lenses) = 2
  /\ Gt(last.pathData[4].y, Div(dimensions.height, Int2Num(2)))
  /\ Gt(last.pathData[1].y, Div(dimensions.height, Int2Num(2)))

\* C27: in every state a render reads, the lens positions grow strictly along
\* the sequence: for every two adjacent lenses k, k+1 the entry distances[k] is
\* there and calculateLensX(k+1) - calculateLensX(k) = 200 * distances[k] >= 40;
\* so the x coordinates of a traced path grow strictly from 0 through every
\* lens to the last point.
C27_PositionsStrictlyIncrease ==
  last.op = "render" =>
    LET ls == last.lenses
        ds == last.distances
    IN  /\ \A k \in 0 .. (Len(ls) - 2) :
             /\ k < Len(ds)
             /\ Sub(calculateLensX(ds, k + 1), calculateLensX(ds, k))
                  = Mul(Int2Num(200), ds[k + 1])
             /\ Ge(Sub(calculateLensX(ds, k + 1), calculateLensX(ds, k)), Int2Num(40))
        /\ LET path == simpleRayTrace(centerY(dimensions), ls, ds, dimensions)
           IN  /\ path[1].x = Int2Num(0)
               /\ \A k \in 1 .. (Len(path) - 1) : Lt(path[k].x, path[k + 1].x)

C27_Witness ==
  /\ last.op = "render"
  /\ Len(last.lenses) = 3
  /\ last.distances = <<MinDistance, MinDistance>>
  /\ calculateLensX(last.distances, 2) = Int2Num(280)

\* C28: with the power in exact tenths, the decrement button requests
\* power - 0.1 and the increment button power + 0.1; at 0.1 the decrement and
\* at -0.1 the increment request 0, at -7.7 the decrement requests -7.8, and
\* such a press leaves the lens as it was; so no press brings the power to 0,
\* to -7.8 or below, or to the other sign.
C28_Sign(x) == IF x.n > 0 THEN 1 ELSE IF x.n < 0 THEN -1 ELSE 0

C28_SteppersKeepSign ==
  last.op \in {"decrement", "increment"} =>
    LET l == lenses[last.position]
        before == last.before
        refused == last.requested.n = 0 \/ last.requested.n * 10 <= -78 * last.requested.d
    IN  /\ last.op = "decrement" => last.requested = Num(before.power.n * 10 - before.power.d, before.power.d * 10)
        /\ last.op = "increment" => last.requested = Num(before.power.n * 10 + before.power.d, before.power.d * 10)
        /\ (last.op = "decrement" /\ before.power = Num(1, 10)) => last.requested = Num(0, 1)
        /\ (last.op = "increment" /\ before.power = Num(-1, 10)) => last.requested = Num(0, 1)
        /\ (last.op = "decrement" /\ before.power = Num(-77, 10)) => last.requested = Num(-78, 10)
        /\ refused => l = before
        /\ ~refused => l.power = last.requested
        /\ l.power.n # 0
        /\ l.power.n * 10 > -78 * l.power.d
        /\ C28_Sign(l.power) = C28_Sign(before.power)

C28_Witness ==
  /\ last.op = "decrement"
  /\ last.before.power = Num(1, 10)
  /\ last.requested = Num(0, 1)
  /\ lenses[1] = last.before

====
